---- MODULE Spec2Model ----
(***************************************************************************)
(* Model of tap_ms_graph/schema.py: the memoised metadata loader, the      *)
(* @odata.context resolver and the two Singer formatting passes.           *)
(*                                                                         *)
(* Python values are encoded as follows.                                   *)
(*   dict          a function whose DOMAIN is the set of keys present      *)
(*   {}            EmptyDict (the function with the empty domain)          *)
(*   list          a sequence                                              *)
(*   str           a TLA+ string; strings that the code inspects character *)
(*                 by character (fragments, type names, pattern text) are  *)
(*                 sequences of one-character strings                      *)
(*   "type" value  TStr(s) for the string s, TList(l) for the list l, so   *)
(*                 that "object" and ["object"] stay different values      *)
(* A document is a tree: jsonref has replaced every $ref by its target.    *)
(***************************************************************************)
EXTENDS Integers, Sequences, FiniteSets, TLC

EmptyDict == <<>>

TStr(s) == <<"str", s>>

TList(l) == <<"list">> \o l

\* d.get(k, default)
get(d, k, default) == IF k \in DOMAIN d THEN d[k] ELSE default

\* the dict left behind by d.pop(k, default)
pop(d, k) == [j \in DOMAIN d \ {k} |-> d[j]]

\* {**a, **b}: the keys of both, b's value where both have the key
merge(a, b) == b @@ a

of_keys == <<"allOf", "anyOf", "oneOf">>

replacement == [type |-> TList(<<"string", "null">>)]

(***************************************************************************)
(* _fix_schema_inheritance.  The pass works in place on the dict it is     *)
(* given, so it is modelled on a record st = [schema, exc]: the dict as    *)
(* mutated so far and the exception raised ("" while none).  Once exc is   *)
(* set the remaining statements are skipped, and st.schema is what the     *)
(* caller's object looks like after the failed call.                       *)
(***************************************************************************)

\* schema["properties"] = {**schema["properties"], **props}
\* reading schema["properties"] raises KeyError when the key is absent
MergeProperties(st, props) ==
    IF st.exc # "" THEN st
    ELSE IF "properties" \notin DOMAIN st.schema
         THEN [st EXCEPT !.exc = "KeyError"]
         ELSE [st EXCEPT !.schema =
                  [@ EXCEPT !["properties"] = merge(@, props)]]

\* for item in insert_more_items: merge item.get("properties", {})
RECURSIVE MergeMoreItems(_, _)
MergeMoreItems(st, insert_more_items) ==
    IF Len(insert_more_items) = 0 THEN st
    ELSE MergeMoreItems(
            MergeProperties(st, get(Head(insert_more_items), "properties", EmptyDict)),
            Tail(insert_more_items))

\* for of_key in of_keys (from index i on): the entries nested in elem
RECURSIVE MergeNestedKeys(_, _, _)
MergeNestedKeys(st, elem, i) ==
    IF i > Len(of_keys) THEN st
    ELSE MergeNestedKeys(MergeMoreItems(st, get(elem, of_keys[i], <<>>)), elem, i + 1)

\* the body of "for elem in insert_items"
MergeElem(st, elem) ==
    LET properties == get(elem, "properties", EmptyDict)
        st1 == IF properties # EmptyDict THEN MergeProperties(st, properties) ELSE st
    IN  MergeNestedKeys(st1, elem, 1)

RECURSIVE MergeInsertItems(_, _)
MergeInsertItems(st, insert_items) ==
    IF Len(insert_items) = 0 \/ st.exc # "" THEN st
    ELSE MergeInsertItems(MergeElem(st, Head(insert_items)), Tail(insert_items))

\* for k in of_keys (from index i on): pop k, then merge what was under it
RECURSIVE FixKeys(_, _)
FixKeys(st, i) ==
    IF i > Len(of_keys) \/ st.exc # "" THEN st
    ELSE LET k == of_keys[i]
             insert_items == get(st.schema, k, <<>>)
             popped == [st EXCEPT !.schema = pop(@, k)]
         IN  FixKeys(MergeInsertItems(popped, insert_items), i + 1)

_fix_schema_inheritance(schema) == FixKeys([schema |-> schema, exc |-> ""], 1)

(***************************************************************************)
(* _convert_complex_types_to_string.  It never raises on a dict of dicts   *)
(* and builds a new dict, so it is an operator from node to node.          *)
(***************************************************************************)
has_of_list(field_val) == \E i \in 1..Len(of_keys) : of_keys[i] \in DOMAIN field_val

\* a variant that knows arrays only
has_structure_array(field_val) ==
    get(field_val, "type", <<"dict">>) = TStr("array")

has_structure(field_val) ==
    get(field_val, "type", <<"dict">>) \in {TStr("array"), TStr("object")}

\* a variant that flattens a structured field to its "items" schema when it has one
_convert_unwrap_items(schema) ==
    LET properties == get(schema, "properties", EmptyDict)
        new_properties ==
            [field_name \in DOMAIN properties |->
                IF has_structure(properties[field_name]) \/ has_of_list(properties[field_name])
                THEN get(properties[field_name], "items", replacement)
                ELSE properties[field_name]]
    IN  [type |-> TStr("object"), properties |-> new_properties]

\* a variant that hands a schema without properties back as it is
_convert_skip_empty(schema) ==
    LET properties == get(schema, "properties", EmptyDict)
        new_properties ==
            [field_name \in DOMAIN properties |->
                IF has_structure(properties[field_name]) \/ has_of_list(properties[field_name])
                THEN replacement
                ELSE properties[field_name]]
    IN  IF properties = EmptyDict THEN schema
        ELSE [type |-> TStr("object"), properties |-> new_properties]

_convert_complex_types_to_string(schema) ==
    LET properties == get(schema, "properties", EmptyDict)
        new_properties ==
            [field_name \in DOMAIN properties |->
                IF has_structure(properties[field_name]) \/ has_of_list(properties[field_name])
                THEN replacement
                ELSE properties[field_name]]
    IN  [type |-> TStr("object"), properties |-> new_properties]

(***************************************************************************)
(* Strings the code looks into.                                            *)
(***************************************************************************)
\* a variant that removes one leading ch
lstrip_one(s, ch) == IF Len(s) > 0 /\ Head(s) = ch THEN Tail(s) ELSE s

RECURSIVE lstrip(_, _)
\* s.lstrip(ch): s without its whole run of leading ch
lstrip(s, ch) == IF Len(s) > 0 /\ Head(s) = ch THEN lstrip(Tail(s), ch) ELSE s

MetadataPrefix == <<"$", "m", "e", "t", "a", "d", "a", "t", "a", "#">>

(***************************************************************************)
(* Patterns.  The regular expressions of the metadata are of the shape     *)
(* ^lit and ^lit$ with lit a literal text; a pattern is [lit, end], end    *)
(* telling whether it closes with "$".  The empty regular expression,      *)
(* which get_ref uses for a candidate that declares none, is NoPattern.    *)
(***************************************************************************)
NoPattern == [lit |-> <<>>, end |-> FALSE]

\* a variant that asks for the whole string (re.fullmatch)
re_fullmatch(pattern, s) == s = pattern.lit

\* re.compile(pattern).match(s): a match that starts at position 0
re_match(pattern, s) ==
    /\ Len(pattern.lit) <= Len(s)
    /\ SubSeq(s, 1, Len(pattern.lit)) = pattern.lit
    /\ pattern.end => Len(s) = Len(pattern.lit)

(***************************************************************************)
(* The metadata documents the model draws from.                            *)
(***************************************************************************)
String == [type |-> TStr("string")]
Integer == [type |-> TStr("integer")]
Boolean == [type |-> TStr("boolean")]
Number == [type |-> TStr("number")]
Object == [type |-> TStr("object")]
ObjectDeep == [type |-> TStr("object"), properties |-> [inner |-> Object]]
Array == [type |-> TStr("array"), items |-> Object]
Nullable == [type |-> TList(<<"object", "null">>)]
Composed == [anyOf |-> <<String, Object>>]
StringComposed == [type |-> TStr("string"), oneOf |-> <<String>>]

\* value.items nodes
ItemsScenario ==
    [allOf |-> << [properties |-> [id |-> String, manager |-> Object]] >>]

ItemsOwn ==
    [properties |-> [id |-> Integer, name |-> String],
     allOf |-> << [properties |-> [id |-> String, manager |-> Object]],
                  [properties |-> [manager |-> Array]] >>]

ItemsNested ==
    [type |-> TStr("object"),
     properties |-> [id |-> String],
     anyOf |-> << [properties |-> [id |-> Boolean]] >>,
     allOf |-> << [properties |-> [id |-> Integer, tags |-> Array],
                   oneOf |-> << [properties |-> [id |-> Number, owner |-> Composed],
                                 allOf |-> << [properties |-> [deep |-> String]] >>] >>,
                   allOf |-> << [properties |-> [owner |-> String]] >>] >>]

ItemsPlain == [type |-> TStr("object"), properties |-> [id |-> String, manager |-> ObjectDeep]]

ItemsBare == [allOf |-> << [oneOf |-> << [type |-> TStr("string")] >>] >>]

ItemsEmptyEntry == [type |-> TStr("object"), oneOf |-> << [type |-> TStr("string")] >>]

OdataContext(pattern) == [pattern |-> pattern]

PatternFor(fragment, end) == [lit |-> MetadataPrefix \o fragment, end |-> end]

\* a candidate of the paginated-collection shape
Collection(pattern, items) ==
    [properties |-> ("@odata.context" :> OdataContext(pattern)) @@ [value |-> [items |-> items]]]

\* a candidate of the composed shape
Entity(pattern, allOf) ==
    [properties |-> ("@odata.context" :> OdataContext(pattern)), allOf |-> allOf]

Scenario == Collection(PatternFor(<<"u">>, TRUE), ItemsScenario)

\* candidates that differ in what their pattern matches
Ordered ==
    { Scenario,
      Collection(PatternFor(<<"u">>, FALSE), ItemsNested),
      Entity(PatternFor(<<"g">>, TRUE), <<ItemsScenario>>),
      [properties |-> [value |-> [items |-> ItemsPlain]]] }

Candidates ==
    Ordered \cup
    { Collection(PatternFor(<<"g">>, FALSE), ItemsOwn),
      Collection(PatternFor(<<"g">>, TRUE), ItemsBare),
      Entity(PatternFor(<<"u">>, FALSE), <<ItemsOwn, ItemsPlain>>),
      [properties |-> ("@odata.context" :> OdataContext(PatternFor(<<"u", "g">>, TRUE)))],
      [properties |-> [value |-> [items |-> ItemsEmptyEntry]], allOf |-> <<ItemsPlain>>] }

Definitions ==
    (<<"u">> :> [type |-> TStr("string"),
                 properties |-> [id |-> String, age |-> Integer, ok |-> Boolean,
                                 score |-> Number, manager |-> ObjectDeep,
                                 tags |-> Array, owner |-> Composed,
                                 alias |-> StringComposed, note |-> Nullable]])
    @@ (<<"#", "u">> :> [properties |-> [id |-> Integer]])
    @@ (<<"g">> :> [type |-> TStr("string")])

Document(anyOf) == [anyOf |-> anyOf, definitions |-> Definitions]

\* the documents "v1.0" is drawn from
Documents ==
    {[definitions |-> Definitions]}
    \cup {Document(<<c>>) : c \in Candidates}
    \cup {Document(<<c, d>>) : c \in Ordered, d \in Ordered}

\* the document of every other version
OtherDocument == Document(<<Scenario>>)

Versions == {"v1.0", "beta"}

Fragments == {<<"u">>, <<"u", "g">>, <<"g">>, <<"x">>}

\* a context identifier: the segments of its path and its fragment
\* (scheme://host/<segments joined by "/">#<fragment>)
Contexts == [segments : {<<v, "$metadata">> : v \in Versions}, fragment : Fragments]

\* get_type_schema reads the version of its context only
TypeContexts == {c \in Contexts : c.fragment = <<"u">>}

TypeNames == {<<"u">>, <<"#", "u">>, <<"#", "#", "u">>, <<"g">>, <<"#", "x">>, <<"#">>}

(***************************************************************************)
(* Exceptions: the class raised, and the classes it derives from.          *)
(***************************************************************************)
ExcBase ==
    [FileNotFoundError |-> "OSError", OSError |-> "Exception",
     JSONDecodeError |-> "ValueError", ValueError |-> "Exception",
     KeyError |-> "LookupError", IndexError |-> "LookupError",
     LookupError |-> "Exception"]

RECURSIVE IsInstance(_, _)
IsInstance(exc, class) ==
    \/ exc = class
    \/ exc \in DOMAIN ExcBase /\ IsInstance(ExcBase[exc], class)

\* a variant whose parser lets a malformed file through
open_exc_tolerant(status) ==
    IF status = "missing" THEN "FileNotFoundError" ELSE ""

\* what open(file) and jsonref.load(fp) raise for a source in the given state
open_exc(status) ==
    CASE status = "missing" -> "FileNotFoundError"
      [] status = "malformed" -> "JSONDecodeError"
      [] OTHER -> ""

(***************************************************************************)
(* State.                                                                  *)
(*   source  per version, the metadata file: its state and what it parses  *)
(*           to; it does not change while the process runs                 *)
(*   heap    the document objects jsonref.load has built, by object id;   *)
(*           the object built by the n-th read of a version's file has     *)
(*           the id [version, n]                                           *)
(*   cache   the memo of @cached: per version the id of the cached         *)
(*           document, NoId while there is none                            *)
(*   reads   per version, how often load_metadata has opened the file      *)
(*   last    the latest call: its arguments, what it returned or raised,   *)
(*           and what it handed to and got from the two passes (picked     *)
(*           tells whether get_schema took value.items or allOf[0])        *)
(***************************************************************************)
VARIABLES source, cache, heap, reads, last

vars == <<source, cache, heap, reads, last>>

MaxReads == 2

SourceStatus == {"ok", "missing", "malformed"}

NoId == [version |-> "", n |-> 0]

NoCall ==
    [op |-> "none", version |-> "", fragment |-> <<>>, odata_type |-> <<>>,
     exc |-> "", hit |-> FALSE, io |-> FALSE, id |-> NoId, index |-> 0,
     name |-> <<>>, schema |-> EmptyDict,
     picked |-> "", fixed |-> FALSE, fix_in |-> EmptyDict, fix_out |-> EmptyDict,
     converted |-> FALSE, convert_in |-> EmptyDict]

Init ==
    /\ \E d \in Documents, st \in [Versions -> SourceStatus] :
          source = [v \in Versions |->
                      [status |-> st[v],
                       doc |-> IF st[v] # "ok" THEN EmptyDict
                               ELSE IF v = "v1.0" THEN d ELSE OtherDocument]]
    /\ cache = [v \in Versions |-> NoId]
    /\ heap = EmptyDict
    /\ reads = [v \in Versions |-> 0]
    /\ last = NoCall

\* @cached without the store: the result is not kept
cached_forget(memo, version, id) == memo

\* @cached: the memo after load_metadata(version) has returned the object id
cached(memo, version, id) == [memo EXCEPT ![version] = id]

(***************************************************************************)
(* load_metadata(version) as a call: what it returns or raises and the     *)
(* cache, heap and read count it leaves.                                   *)
(***************************************************************************)
load_metadata_call(version) ==
    IF cache[version] # NoId
    THEN [exc |-> "", id |-> cache[version], hit |-> TRUE, io |-> FALSE,
          cache |-> cache, heap |-> heap, reads |-> reads]
    ELSE LET exc == open_exc(source[version].status)
             opened == [reads EXCEPT ![version] = @ + 1]
             id == [version |-> version, n |-> opened[version]]
         IN  IF exc # ""
             THEN [exc |-> exc, id |-> NoId, hit |-> FALSE, io |-> TRUE,
                   cache |-> cache, heap |-> heap, reads |-> opened]
             ELSE [exc |-> "", id |-> id, hit |-> FALSE, io |-> TRUE,
                   cache |-> cached(cache, version, id),
                   heap |-> (id :> source[version].doc) @@ heap,
                   reads |-> opened]

\* the call can be taken: a call that opens the file stays within MaxReads
CanLoad(version) == cache[version] # NoId \/ reads[version] < MaxReads

\* link.path.split("/")[1] for the path "/" + "/".join(segments)
version_of(context) == (<<"">> \o context.segments)[2]

context_str_of(context) == MetadataPrefix \o context.fragment

pattern_of(ref) ==
    get(get(get(ref, "properties", EmptyDict), "@odata.context", EmptyDict),
        "pattern", NoPattern)

\* the loop of get_ref from candidate i on: the index returned, 0 when it falls through
RECURSIVE get_ref_loop(_, _, _)
get_ref_loop(anyOf, i, context_str) ==
    IF i > Len(anyOf) THEN 0
    ELSE IF re_match(pattern_of(anyOf[i]), context_str) THEN i
    ELSE get_ref_loop(anyOf, i + 1, context_str)

get_ref_call(context) ==
    LET ld == load_metadata_call(version_of(context))
    IN  IF ld.exc # "" THEN [ld |-> ld, exc |-> ld.exc, index |-> 0]
        ELSE LET metadata == ld.heap[ld.id]
                 index == get_ref_loop(get(metadata, "anyOf", <<>>), 1,
                                       context_str_of(context))
             IN  [ld |-> ld, exc |-> IF index = 0 THEN "ValueError" ELSE "", index |-> index]

(***************************************************************************)
(* get_schema(context) as a call.  full_schema is an object inside the     *)
(* cached document (value.items of the matched candidate, or its first     *)
(* allOf entry), and _fix_schema_inheritance changes it in place: heap is  *)
(* the heap with that object as the pass left it, also when it raised.     *)
(***************************************************************************)
get_schema_call(context) ==
    LET r == get_ref_call(context)
        none == [ld |-> r.ld, exc |-> r.exc, index |-> r.index, heap |-> r.ld.heap,
                 picked |-> "", fixed |-> FALSE, fix_in |-> EmptyDict, fix_out |-> EmptyDict,
                 converted |-> FALSE, convert_in |-> EmptyDict, schema |-> EmptyDict]
    IN  IF r.exc # "" THEN none
        ELSE LET ref == r.ld.heap[r.ld.id].anyOf[r.index]
                 value == get(get(get(ref, "properties", EmptyDict), "value", EmptyDict),
                              "items", EmptyDict)
                 allOf == get(ref, "allOf", <<>>)
             IN  IF value = EmptyDict /\ Len(allOf) = 0
                 THEN [none EXCEPT !.exc = "IndexError"]
                 ELSE LET full_schema == IF value # EmptyDict THEN value ELSE allOf[1]
                          st == _fix_schema_inheritance(full_schema)
                          mutated ==
                              IF value # EmptyDict
                              THEN [r.ld.heap EXCEPT
                                      ![r.ld.id].anyOf[r.index].properties.value.items = st.schema]
                              ELSE [r.ld.heap EXCEPT
                                      ![r.ld.id].anyOf[r.index].allOf[1] = st.schema]
                      IN  [none EXCEPT
                              !.exc = st.exc, !.heap = mutated, !.fixed = TRUE,
                              !.picked = IF value # EmptyDict THEN "items" ELSE "allOf",
                              !.fix_in = full_schema, !.fix_out = st.schema,
                              !.converted = (st.exc = ""),
                              !.convert_in = IF st.exc = "" THEN st.schema ELSE EmptyDict,
                              !.schema = IF st.exc = ""
                                         THEN _convert_complex_types_to_string(st.schema)
                                         ELSE EmptyDict]

get_type_schema_call(odata_context, odata_type) ==
    LET ld == load_metadata_call(version_of(odata_context))
        name == lstrip(odata_type, "#")
    IN  IF ld.exc # ""
        THEN [ld |-> ld, exc |-> ld.exc, name |-> <<>>, converted |-> FALSE,
              convert_in |-> EmptyDict, schema |-> EmptyDict]
        ELSE LET metadata == ld.heap[ld.id]
                 full_schema == get(get(metadata, "definitions", EmptyDict), name, EmptyDict)
             IN  [ld |-> ld, exc |-> "", name |-> name, converted |-> TRUE,
                  convert_in |-> full_schema,
                  schema |-> _convert_complex_types_to_string(full_schema)]

(***************************************************************************)
(* The four public functions as steps of a caller.                         *)
(***************************************************************************)
load_metadata(version) ==
    /\ CanLoad(version)
    /\ \E ld \in {load_metadata_call(version)} :
           /\ cache' = ld.cache
           /\ heap' = ld.heap
           /\ reads' = ld.reads
           /\ last' = [NoCall EXCEPT !.op = "load_metadata", !.version = version,
                                     !.exc = ld.exc, !.hit = ld.hit, !.io = ld.io,
                                     !.id = ld.id]
    /\ UNCHANGED source

get_ref(context) ==
    /\ CanLoad(version_of(context))
    /\ \E r \in {get_ref_call(context)} :
           /\ cache' = r.ld.cache
           /\ heap' = r.ld.heap
           /\ reads' = r.ld.reads
           /\ last' = [NoCall EXCEPT !.op = "get_ref", !.version = version_of(context),
                                     !.fragment = context.fragment,
                                     !.exc = r.exc, !.hit = r.ld.hit, !.io = r.ld.io,
                                     !.id = r.ld.id, !.index = r.index]
    /\ UNCHANGED source

get_schema(context) ==
    /\ CanLoad(version_of(context))
    /\ \E r \in {get_schema_call(context)} :
           /\ cache' = r.ld.cache
           /\ heap' = r.heap
           /\ reads' = r.ld.reads
           /\ last' = [NoCall EXCEPT !.op = "get_schema", !.version = version_of(context),
                                     !.fragment = context.fragment,
                                     !.exc = r.exc, !.hit = r.ld.hit, !.io = r.ld.io,
                                     !.id = r.ld.id, !.index = r.index,
                                     !.picked = r.picked,
                                     !.fixed = r.fixed, !.fix_in = r.fix_in,
                                     !.fix_out = r.fix_out, !.converted = r.converted,
                                     !.convert_in = r.convert_in, !.schema = r.schema]
    /\ UNCHANGED source

get_type_schema(odata_context, odata_type) ==
    /\ CanLoad(version_of(odata_context))
    /\ \E r \in {get_type_schema_call(odata_context, odata_type)} :
           /\ cache' = r.ld.cache
           /\ heap' = r.ld.heap
           /\ reads' = r.ld.reads
           /\ last' = [NoCall EXCEPT !.op = "get_type_schema",
                                     !.version = version_of(odata_context),
                                     !.odata_type = odata_type,
                                     !.exc = r.exc, !.hit = r.ld.hit, !.io = r.ld.io,
                                     !.id = r.ld.id, !.name = r.name,
                                     !.converted = r.converted,
                                     !.convert_in = r.convert_in, !.schema = r.schema]
    /\ UNCHANGED source

Next ==
    \/ \E version \in Versions : load_metadata(version)
    \/ \E context \in Contexts : get_ref(context)
    \/ \E context \in Contexts : get_schema(context)
    \/ \E context \in TypeContexts, odata_type \in TypeNames : get_type_schema(context, odata_type)

Spec == Init /\ [][Next]_vars

(***************************************************************************)
(* Properties.                                                             *)
(***************************************************************************)
ScalarTypes == {TStr("string"), TStr("number"), TStr("integer"), TStr("boolean")}

StructuredTypes == {TStr("array"), TStr("object")}

CompositionKeys == {"allOf", "anyOf", "oneOf"}

\* the field, as a flattened schema shows it
Coerced(field) ==
    IF "type" \in DOMAIN field /\ field.type \in StructuredTypes
    THEN [type |-> TList(<<"string", "null">>)]
    ELSE field

\* the property maps of the entries, merged in sequence order
RECURSIVE MergedProperties(_)
MergedProperties(entries) ==
    IF Len(entries) = 0 THEN EmptyDict
    ELSE LET rest == MergedProperties(SubSeq(entries, 1, Len(entries) - 1))
             top == entries[Len(entries)].properties
         IN  [f \in DOMAIN rest \cup DOMAIN top |-> IF f \in DOMAIN top THEN top[f] ELSE rest[f]]

\* a node that carries an allOf list of entries with properties, and nothing else
AllOfOnly(node) ==
    /\ DOMAIN node = {"allOf"}
    /\ Len(node.allOf) > 0
    /\ \A i \in 1..Len(node.allOf) :
          DOMAIN node.allOf[i] = {"properties"} /\ node.allOf[i].properties # EmptyDict

\* C1: get_schema on a candidate whose value.items node carries only an allOf
\* list of entries with properties returns {type: "object", properties: P}, P
\* the merge of the entries' properties with array and object fields replaced
\* by {type: ["string", "null"]}; for the items node of the spec's scenario it
\* returns {type: "object", properties: {id: string, manager: ["string", "null"]}}.
C1_SchemaOfAllOfOnlyItems ==
    (last.op = "get_schema" /\ last.picked = "items" /\ AllOfOnly(last.fix_in)) =>
        /\ last.exc = ""
        /\ last.schema =
              [type |-> TStr("object"),
               properties |-> [f \in DOMAIN MergedProperties(last.fix_in.allOf) |->
                                  Coerced(MergedProperties(last.fix_in.allOf)[f])]]
        /\ last.fix_in = ItemsScenario =>
              last.schema = [type |-> TStr("object"),
                             properties |-> [id |-> [type |-> TStr("string")],
                                             manager |-> [type |-> TList(<<"string", "null">>)]]]

\* C2: a loaded document never changes: no step changes a cached document, and
\* get_schema called again with the same context identifier has the outcome of
\* the call before it.
C2_LoadedDocumentImmutable ==
    [][ /\ \A v \in Versions : cache[v] # NoId => heap'[cache[v]] = heap[cache[v]]
        /\ (/\ last.op = "get_schema" /\ last'.op = "get_schema"
            /\ last'.version = last.version /\ last'.fragment = last.fragment)
           => (last'.exc = last.exc /\ last'.schema = last.schema) ]_vars

\* the property maps Pass A writes over the node's own, in the order it writes them
RECURSIVE PropertiesOf(_)
PropertiesOf(entries) ==
    IF Len(entries) = 0 THEN <<>>
    ELSE (IF "properties" \in DOMAIN Head(entries) THEN <<Head(entries).properties>> ELSE <<>>)
         \o PropertiesOf(Tail(entries))

Under(node, key) == IF key \in DOMAIN node THEN node[key] ELSE <<>>

Nested(entry) == Under(entry, "allOf") \o Under(entry, "anyOf") \o Under(entry, "oneOf")

RECURSIVE WritesOf(_)
WritesOf(entries) ==
    IF Len(entries) = 0 THEN <<>>
    ELSE PropertiesOf(<<Head(entries)>>) \o PropertiesOf(Nested(Head(entries)))
         \o WritesOf(Tail(entries))

RECURSIVE Overwritten(_, _)
Overwritten(properties, writes) ==
    IF Len(writes) = 0 THEN properties
    ELSE Overwritten([f \in DOMAIN properties \cup DOMAIN Head(writes) |->
                        IF f \in DOMAIN Head(writes) THEN Head(writes)[f] ELSE properties[f]],
                     Tail(writes))

\* C10: Pass A leaves no composition key on the node and sets its properties to
\* its own properties overwritten, later writes winning, by the properties of
\* the entries under allOf, anyOf, oneOf in that order, each entry followed by
\* the entries nested one level below it; nothing deeper is merged; and this
\* for every node, one without a properties map of its own included.
C10_PassAMergesTwoLevels ==
    last.fixed =>
        /\ last.exc = ""
        /\ DOMAIN last.fix_out \cap CompositionKeys = {}
        /\ Under(last.fix_out, "properties") =
              Overwritten(Under(last.fix_in, "properties"), WritesOf(Nested(last.fix_in)))

\* C10 for the nodes that have a properties map of their own
PassAMergesTwoLevelsOwn ==
    (last.fixed /\ "properties" \in DOMAIN last.fix_in) =>
        /\ last.exc = ""
        /\ DOMAIN last.fix_out \cap CompositionKeys = {}
        /\ last.fix_out.properties =
              Overwritten(last.fix_in.properties, WritesOf(Nested(last.fix_in)))

\* the objects jsonref.load has built for the version
ObjectsOf(v) == {id \in DOMAIN heap : id.version = v}

\* C3: the first successful load_metadata(V) reads the source once; every later
\* load_metadata(V), alone or inside another call, reads nothing and returns
\* the very document the first one returned; the cache holds one document per
\* version, and an entry is never dropped nor replaced.
C3_LoadedOncePerVersion ==
    /\ \A v \in Versions :
          source[v].status = "ok" =>
              \/ reads[v] = 0 /\ cache[v] = NoId /\ ObjectsOf(v) = {}
              \/ /\ reads[v] = 1
                 /\ cache[v] = [version |-> v, n |-> 1]
                 /\ ObjectsOf(v) = {cache[v]}
    /\ \A v \in Versions : cache[v] # NoId => source[v].status = "ok"
    /\ (last.op # "none" /\ last.hit) =>
          /\ ~last.io
          /\ last.exc \notin {"FileNotFoundError", "JSONDecodeError"}
          /\ last.id = [version |-> last.version, n |-> 1]
          /\ last.id = cache[last.version]
    /\ (last.op = "load_metadata" /\ last.exc = "") =>
          /\ last.id = cache[last.version]
          /\ last.io = ~last.hit

\* load_metadata has been answered from the cache while both versions are cached
C3_SecondLoadHitsCache ==
    /\ last.op = "load_metadata" /\ last.hit /\ ~last.io
    /\ reads[last.version] = 1
    /\ \A v \in Versions : cache[v] # NoId
    /\ cache["v1.0"] # cache["beta"]

\* the candidate's pattern matches a text that s starts with
\* (a candidate that declares no pattern has the empty one, as get_ref reads it)
MatchesAtStart(ref, s) ==
    LET declared ==
            /\ "properties" \in DOMAIN ref
            /\ "@odata.context" \in DOMAIN ref.properties
            /\ "pattern" \in DOMAIN ref.properties["@odata.context"]
        lit == IF declared THEN ref.properties["@odata.context"].pattern.lit ELSE <<>>
        end == IF declared THEN ref.properties["@odata.context"].pattern.end ELSE FALSE
    IN  \E k \in 0..Len(s) :
            /\ SubSeq(s, 1, k) = lit
            /\ end => k = Len(s)

Matching(anyOf, s) == {i \in 1..Len(anyOf) : MatchesAtStart(anyOf[i], s)}

TopLevel(id) == IF "anyOf" \in DOMAIN heap[id] THEN heap[id].anyOf ELSE <<>>

ComparisonString(fragment) ==
    <<"$", "m", "e", "t", "a", "d", "a", "t", "a", "#">> \o fragment

\* C4: get_ref returns the candidate with the smallest index among those whose
\* pattern matches "$metadata#" + fragment from position 0 on (the pattern need
\* not cover the whole string); candidates after it are not looked at; when no
\* candidate matches it raises ValueError.
C4_FirstMatchInDocumentOrder ==
    (last.op = "get_ref" /\ last.id # NoId) =>
        LET matching == Matching(TopLevel(last.id), ComparisonString(last.fragment))
        IN  /\ matching # {} =>
                  /\ last.exc = ""
                  /\ last.index \in matching
                  /\ \A i \in matching : last.index <= i
            /\ matching = {} => last.exc = "ValueError" /\ last.index = 0

\* get_ref has returned the first of two matching candidates on a pattern
\* that covers a proper prefix of the comparison string
C4_FirstOfTwoPrefixMatches ==
    /\ last.op = "get_ref" /\ last.exc = "" /\ last.index = 1
    /\ Matching(TopLevel(last.id), ComparisonString(last.fragment)) = {1, 2}
    /\ Len(pattern_of(TopLevel(last.id)[1]).lit) < Len(ComparisonString(last.fragment))
    /\ Len(pattern_of(TopLevel(last.id)[1]).lit) > 0

\* C5: Pass B returns {type: "object", properties: M} whatever the type of the
\* node it is given, M having the field names of the node's properties; a field
\* of type "array" or "object" or with a composition key is exactly
\* {type: ["string", "null"]} in M, and a field of a scalar type (without a
\* composition key) is in M as it was.
C5_PassBCoercesStructuredFields ==
    last.converted =>
        LET properties == Under(last.convert_in, "properties")
        IN  /\ DOMAIN last.schema = {"type", "properties"}
            /\ last.schema.type = TStr("object")
            /\ DOMAIN last.schema.properties = DOMAIN properties
            /\ \A f \in DOMAIN properties :
                  LET field == properties[f]
                      composed == DOMAIN field \cap CompositionKeys # {}
                      typed(types) == "type" \in DOMAIN field /\ field.type \in types
                  IN  /\ (typed(StructuredTypes) \/ composed) =>
                            last.schema.properties[f] = [type |-> TList(<<"string", "null">>)]
                      /\ (typed(ScalarTypes) /\ ~composed) =>
                            last.schema.properties[f] = field

\* Pass B has run on a node of type "string" that has scalar, array, object and
\* composed fields, some of them with content of their own
C5_AllKindsOfField ==
    /\ last.converted
    /\ "type" \in DOMAIN last.convert_in /\ last.convert_in.type = TStr("string")
    /\ \E f, g, h, k \in DOMAIN Under(last.convert_in, "properties") :
          /\ last.convert_in.properties[f] = Array
          /\ last.convert_in.properties[g] = ObjectDeep
          /\ last.convert_in.properties[h] = StringComposed
          /\ last.convert_in.properties[k] = Integer

\* C6: Pass B applied to what Pass B returned returns it unchanged.
C6_PassBIdempotent ==
    last.converted => _convert_complex_types_to_string(last.schema) = last.schema

\* Pass B has replaced an array field that has an items schema
C6_ArrayFieldReplaced ==
    /\ last.converted
    /\ \E f \in DOMAIN last.schema.properties :
          /\ last.convert_in.properties[f] = Array
          /\ last.schema.properties[f] = replacement

\* get_type_schema has loaded its document and looked the name up
LookedUp == last.op = "get_type_schema" /\ last.exc = "" /\ last.id # NoId

NameAbsent ==
    "definitions" \notin DOMAIN heap[last.id] \/ last.name \notin DOMAIN heap[last.id].definitions

\* C7 as claimed: for a name that is not in definitions get_type_schema
\* returns the empty schema {}.
C7_AbsentNameGivesEmptySchema ==
    (LookedUp /\ NameAbsent) => last.schema = EmptyDict

\* C7: for a name that is not in definitions get_type_schema raises nothing and
\* returns Pass B's reshaping of the empty schema, {type: "object", properties: {}}.
C7_AbsentNameGivesEmptyObjectSchema ==
    (last.op = "get_type_schema" /\ last.id # NoId /\ NameAbsent) =>
        /\ last.exc = ""
        /\ DOMAIN last.schema = {"type", "properties"}
        /\ last.schema.type = TStr("object")
        /\ DOMAIN last.schema.properties = {}

\* get_type_schema has returned for "#x", a name definitions does not have
C7_UnknownTypeLookedUp ==
    /\ LookedUp /\ NameAbsent
    /\ last.odata_type = <<"#", "x">> /\ last.name = <<"x">>
    /\ last.schema # EmptyDict

\* the number of "#" the text starts with
RECURSIVE LeadingMarkers(_)
LeadingMarkers(text) ==
    IF Len(text) > 0 /\ text[1] = "#" THEN 1 + LeadingMarkers(SubSeq(text, 2, Len(text))) ELSE 0

\* C8 as claimed: the name looked up is type_name without its first character
\* when that is "#" (of k leading "#", k - 1 remain), and type_name itself
\* otherwise.
C8_OneLeadingMarkerStripped ==
    LookedUp =>
        last.name = IF LeadingMarkers(last.odata_type) >= 1
                    THEN SubSeq(last.odata_type, 2, Len(last.odata_type))
                    ELSE last.odata_type

\* C8: the name looked up is type_name without any of its leading "#": of k
\* leading "#" none remains, and a type_name without a leading "#" is looked up
\* unchanged.
C8_AllLeadingMarkersStripped ==
    LookedUp =>
        /\ last.name = SubSeq(last.odata_type, LeadingMarkers(last.odata_type) + 1,
                              Len(last.odata_type))
        /\ LeadingMarkers(last.name) = 0

\* get_type_schema has looked "##u" up as "u" in a document that defines "#u" too
C8_TwoMarkersStripped ==
    /\ LookedUp
    /\ LeadingMarkers(last.odata_type) = 2
    /\ last.name = <<"u">>
    /\ <<"#", "u">> \in DOMAIN heap[last.id].definitions
    /\ last.convert_in = heap[last.id].definitions[<<"u">>]

\* the latest call asked for a version whose file is missing or malformed
LoadFailed == last.op # "none" /\ source[last.version].status # "ok"

\* C9 as claimed: a version whose source is missing or cannot be parsed makes
\* load_metadata, and with it get_ref, get_schema and get_type_schema, fail
\* with an error of class LookupError, and nothing is cached for the version.
C9_LoadFailsWithLookupError ==
    LoadFailed =>
        /\ IsInstance(last.exc, "LookupError")
        /\ cache[last.version] = NoId

\* C9: a version whose source is missing makes load_metadata, and with it
\* get_ref, get_schema and get_type_schema, fail with FileNotFoundError (an
\* OSError), one whose source cannot be parsed with JSONDecodeError (a
\* ValueError); neither is a LookupError; nothing is cached for the version,
\* so every call opens the source again.
C9_LoadFailsWithOSErrorOrValueError ==
    /\ LoadFailed =>
          /\ source[last.version].status = "missing" =>
                last.exc = "FileNotFoundError" /\ IsInstance(last.exc, "OSError")
          /\ source[last.version].status = "malformed" =>
                last.exc = "JSONDecodeError" /\ IsInstance(last.exc, "ValueError")
          /\ ~IsInstance(last.exc, "LookupError")
          /\ last.io /\ ~last.hit /\ last.id = NoId
          /\ last.schema = EmptyDict /\ last.index = 0
    /\ \A v \in Versions :
          source[v].status # "ok" => cache[v] = NoId /\ ObjectsOf(v) = {}

\* get_schema has failed on a malformed source that an earlier call had
\* already failed on, while the other version is cached
C9_SecondCallFailsAgain ==
    /\ LoadFailed /\ last.op = "get_schema"
    /\ last.exc = "JSONDecodeError"
    /\ reads[last.version] = 2
    /\ \E v \in Versions : cache[v] # NoId

====
